---- MODULE Spec2Model ----
(***************************************************************************)
(* Model of src/orch_api.py: the OrchApi client.  One client object is     *)
(* followed from before its construction through a bounded number of      *)
(* operation calls.  Python values are tagged records [ty, v]; Python str  *)
(* values are TLA+ strings; dicts are functions from keys to values.       *)
(***************************************************************************)
EXTENDS Integers, Sequences, FiniteSets, TLC

VARIABLES client, tokenResponse, call, lastRequest, result, calls, sent

vars == <<client, tokenResponse, call, lastRequest, result, calls, sent>>

(* ---------------------------- bounds ----------------------------------- *)

\* number of calls (construction attempts included) followed in one run
MaxCalls == 3

(* ------------------------- Python values ------------------------------- *)

StrV(s) == [ty |-> "str", v |-> s]
BoolV(b) == [ty |-> "bool", v |-> b]
IntV(n) == [ty |-> "int", v |-> n]
None == [ty |-> "NoneType", v |-> "None"]
ListV(s) == [ty |-> "list", v |-> s]
DictV(f) == [ty |-> "dict", v |-> f]

EmptyDict == <<>>

CONTENT_TYPE_JSON == "application/json"

Digits == "0123456789"
UpperCase == "ABCDEFGHIJKLMNOPQRSTUVWXYZ"
LowerCase == "abcdefghijklmnopqrstuvwxyz"

RECURSIVE IntToStr(_)
\* str(n) for an int: optional sign, then the decimal digits
IntToStr(n) ==
    IF n < 0 THEN "-" \o IntToStr(0 - n)
    ELSE IF n < 10 THEN SubSeq(Digits, n + 1, n + 1)
    ELSE IntToStr(n \div 10) \o SubSeq(Digits, (n % 10) + 1, (n % 10) + 1)

\* str(x) of a Python value
PyStr(x) ==
    CASE x.ty = "str" -> x.v
      [] x.ty = "bool" -> (IF x.v THEN "True" ELSE "False")
      [] x.ty = "int" -> IntToStr(x.v)
      [] x.ty = "NoneType" -> "None"

LowerChar(c) ==
    IF \E i \in 1..Len(UpperCase) : SubSeq(UpperCase, i, i) = c
    THEN LET i == CHOOSE j \in 1..Len(UpperCase) : SubSeq(UpperCase, j, j) = c
         IN SubSeq(LowerCase, i, i)
    ELSE c

RECURSIVE Lower(_)
\* str.lower(): every cased character replaced by its lowercase form
Lower(s) ==
    IF Len(s) = 0 THEN ""
    ELSE LowerChar(SubSeq(s, 1, 1)) \o Lower(SubSeq(s, 2, Len(s)))

StartsWith(s, p) == Len(p) <= Len(s) /\ SubSeq(s, 1, Len(p)) = p
EndsWith(s, p) == Len(p) <= Len(s) /\ SubSeq(s, Len(s) - Len(p) + 1, Len(s)) = p
Contains(s, p) ==
    \E i \in 1..(Len(s) - Len(p) + 1) : SubSeq(s, i, i + Len(p) - 1) = p

\* variant: keys already present keep their value
DictUpdate_keep(d, other) ==
    [k \in (DOMAIN d) \cup (DOMAIN other) |->
        IF k \in DOMAIN d THEN d[k] ELSE other[k]]

\* dict.update(other): keys of other are added, colliding keys take other's value
DictUpdate(d, other) ==
    [k \in (DOMAIN d) \cup (DOMAIN other) |->
        IF k \in DOMAIN other THEN other[k] ELSE d[k]]

(* --------------------------- HTTP layer -------------------------------- *)

TokenKeyOpen == "{\"access_token\":\""
TokenKeyClose == "\"}"

\* response.json(): the object texts the server sends are decoded, any
\* other text raises a JSON decoding error (ok = FALSE).
JsonLoads(text) ==
    IF text = "{}" THEN [ok |-> TRUE, val |-> EmptyDict]
    ELSE IF /\ StartsWith(text, TokenKeyOpen)
            /\ EndsWith(text, TokenKeyClose)
            /\ Len(text) >= Len(TokenKeyOpen) + Len(TokenKeyClose)
         THEN LET tok == SubSeq(text, Len(TokenKeyOpen) + 1,
                                Len(text) - Len(TokenKeyClose))
              IN IF Contains(tok, "\"")
                 THEN [ok |-> FALSE, val |-> EmptyDict]
                 ELSE [ok |-> TRUE, val |-> [access_token |-> tok]]
    ELSE [ok |-> FALSE, val |-> EmptyDict]

JsonErrorMsg == "Expecting value: line 1 column 1 (char 0)"

NoResponse == [status_code |-> 0, text |-> ""]
NoJson == [ty |-> "absent", v |-> "absent"]
NoRequest == [method |-> "none", uri |-> "", headers |-> EmptyDict, json |-> NoJson]
NoClient == [constructed |-> FALSE, base_url |-> "", access_token |-> ""]

Return(val, resp) ==
    [kind |-> "return", exc |-> "", msg |-> "", value |-> val, response |-> resp]
Raise(exc, msg, resp) ==
    [kind |-> "raise", exc |-> exc, msg |-> msg, value |-> None, response |-> resp]
NoResult ==
    [kind |-> "none", exc |-> "", msg |-> "", value |-> None, response |-> NoResponse]

\* the f-string every failure branch formats
FailureMessage(what, response) ==
    what \o ". Status code: " \o PyStr(IntV(response.status_code))
         \o ". Response: " \o response.text

\* return response.json(), response
ReturnJson(response) ==
    LET parsed == JsonLoads(response.text)
    IN IF parsed.ok THEN Return(DictV(parsed.val), response)
       ELSE Raise("JSONDecodeError", JsonErrorMsg, response)

(* ------------------------- input domains ------------------------------- *)

DefaultTokenUrl == "https://account.uipath.com/oauth/token"
BaseUrls == {"https://cloud.example/org/tenant/orchestrator_"}
Ids == {7}
Keys == {1, 25}
SuccessStatuses == {200, 201, 204}
FailureStatuses == {404, 500}
TokenBodies == {"{\"access_token\":\"abc\"}", "{\"access_token\":\"Xy9\"}", "{}", "Unauthorized"}
ApiBodies == {"{}", "Not Found"}
TokenResponses == [status_code : {200, 401, 500}, text : TokenBodies]
ApiResponses ==
    [status_code : SuccessStatuses, text : ApiBodies]
        \cup [status_code : FailureStatuses, text : {"Not Found"}]

ValidValueTypes == {"Integer", "Boolean", "String", "Credential"}
ValueTypes == ValidValueTypes \cup {"Float", "boolean"}
Values == {BoolV(TRUE), BoolV(FALSE), IntV(42), StrV("Yes")}
CredentialPairs == {<<None, None>>, <<StrV("robot"), StrV("S3cret")>>}

QueueKwargs ==
    { EmptyDict,
      [Name |-> StrV("Override")],
      [MaxNumberOfRetries |-> IntV(2)],
      [Description |-> StrV("mine"), AcceptAutomaticallyRetry |-> BoolV(TRUE)] }

ItemKwargs ==
    { EmptyDict,
      [Reference |-> StrV("ref-1")],
      [itemData |-> DictV([Name |-> StrV("Other")])],
      [itemData |-> DictV([Name |-> StrV("Other")]), Name |-> StrV("Top")] }

SpecificContents == { EmptyDict, [Invoice |-> StrV("A1")] }
Priorities == {"Normal", "High"}

(* ----------------------------- __init__ -------------------------------- *)

\* lines 29-37: the token-exchange request
init_request(client_id, refresh_token, tokenurl) ==
    [method |-> "POST",
     uri |-> tokenurl,
     headers |-> ("Authorization" :> "Bearer") @@ ("Content-Type" :> CONTENT_TYPE_JSON),
     json |-> DictV([grant_type |-> StrV("refresh_token"),
                     client_id |-> StrV(client_id),
                     refresh_token |-> StrV(refresh_token)])]

\* lines 39-45: response.json() is evaluated first, then the status is tested
init_result(response) ==
    LET access == JsonLoads(response.text)
    IN IF ~access.ok
       THEN Raise("JSONDecodeError", JsonErrorMsg, response)
       ELSE IF response.status_code = 200
       THEN IF "access_token" \in DOMAIN access.val
            THEN Return(StrV(access.val["access_token"]), response)
            ELSE Raise("KeyError", "'access_token'", response)
       ELSE Raise("ValueError",
                  FailureMessage("Failed to retrieve access token", response),
                  response)

OrchApi_init ==
    /\ calls < MaxCalls
    /\ ~client.constructed
    /\ \E base_url \in BaseUrls, response \in TokenResponses :
         LET r == init_result(response)
         IN /\ call' = [op |-> "__init__", args |-> [base_url |-> base_url]]
            /\ lastRequest' = init_request("client-1", "refresh-1", DefaultTokenUrl)
            /\ sent' = sent + 1
            /\ tokenResponse' = response
            /\ result' = r
            /\ client' = IF r.kind = "return"
                         THEN [constructed |-> TRUE, base_url |-> base_url,
                               access_token |-> r.value.v]
                         ELSE client
    /\ calls' = calls + 1

(* -------------------------- asset retrieval ---------------------------- *)

get_all_assets_request(self) ==
    [method |-> "GET",
     uri |-> self.base_url
             \o "/odata/Assets/UiPath.Server.Configuration.OData.GetAssetsAcrossFolders",
     headers |-> ("Authorization" :> ("Bearer " \o self.access_token))
                 @@ ("Content-Type" :> "application/json;odata.metadata=minimal;odata.streaming=True")
                 @@ ("accept" :> CONTENT_TYPE_JSON),
     json |-> NoJson]

get_all_assets_result(response) ==
    IF response.status_code = 200
    THEN ReturnJson(response)
    ELSE Raise("ValueError", FailureMessage("Failed to retrieve assets", response), response)

\* variant: the operation keeps the URI it built as the client's base URL
get_all_assets_rebase ==
    /\ calls < MaxCalls
    /\ client.constructed
    /\ \E response \in ApiResponses :
         /\ call' = [op |-> "get_all_assets", args |-> EmptyDict]
         /\ lastRequest' = get_all_assets_request(client)
         /\ sent' = sent + 1
         /\ result' = get_all_assets_result(response)
    /\ client' = [client EXCEPT !.base_url = get_all_assets_request(client).uri]
    /\ calls' = calls + 1
    /\ UNCHANGED tokenResponse

get_all_assets ==
    /\ calls < MaxCalls
    /\ client.constructed
    /\ \E response \in ApiResponses :
         /\ call' = [op |-> "get_all_assets", args |-> EmptyDict]
         /\ lastRequest' = get_all_assets_request(client)
         /\ sent' = sent + 1
         /\ result' = get_all_assets_result(response)
    /\ calls' = calls + 1
    /\ UNCHANGED <<client, tokenResponse>>

\* variant: the scheme and the token are joined without the separating space
unit_headers_nospace(self, id) ==
    ("Authorization" :> ("Bearer" \o self.access_token))
    @@ ("X-UIPATH-OrganizationUnitId" :> PyStr(IntV(id)))
    @@ ("accept" :> CONTENT_TYPE_JSON)

\* the headers of every call scoped to an organization unit
unit_headers(self, id) ==
    ("Authorization" :> ("Bearer " \o self.access_token))
    @@ ("X-UIPATH-OrganizationUnitId" :> PyStr(IntV(id)))
    @@ ("accept" :> CONTENT_TYPE_JSON)

asset_uri(self, key) == self.base_url \o "/odata/Assets(" \o PyStr(IntV(key)) \o ")"

get_assets_by_key_request(self, key, id) ==
    [method |-> "GET", uri |-> asset_uri(self, key),
     headers |-> unit_headers(self, id), json |-> NoJson]

get_assets_by_key_result(response) ==
    IF response.status_code = 200
    THEN ReturnJson(response)
    ELSE Raise("ValueError", FailureMessage("Failed to retrieve assets", response), response)

get_assets_by_key ==
    /\ calls < MaxCalls
    /\ client.constructed
    /\ \E key \in Keys, id \in Ids, response \in ApiResponses :
         /\ call' = [op |-> "get_assets_by_key", args |-> [key |-> key, id |-> id]]
         /\ lastRequest' = get_assets_by_key_request(client, key, id)
         /\ sent' = sent + 1
         /\ result' = get_assets_by_key_result(response)
    /\ calls' = calls + 1
    /\ UNCHANGED <<client, tokenResponse>>

(* --------------------------- delete_asset ------------------------------ *)

delete_asset_request(self, key, id) ==
    [method |-> "DELETE", uri |-> asset_uri(self, key),
     headers |-> unit_headers(self, id), json |-> NoJson]

\* variant: 200 is taken for success as well
delete_asset_result_200(response) ==
    IF response.status_code \in {200, 204}
    THEN Return(None, response)
    ELSE Raise("ValueError", FailureMessage("Failed to delete asset", response), response)

\* lines 104-109: 204 prints and returns None
delete_asset_result(response) ==
    IF response.status_code = 204
    THEN Return(None, response)
    ELSE Raise("ValueError", FailureMessage("Failed to delete asset", response), response)

\* variant: a 5xx answer is retried once
delete_asset_retry ==
    /\ calls < MaxCalls
    /\ client.constructed
    /\ \E key \in Keys, id \in Ids, response \in ApiResponses, second \in ApiResponses :
         /\ call' = [op |-> "delete_asset", args |-> [key |-> key, id |-> id]]
         /\ lastRequest' = delete_asset_request(client, key, id)
         /\ IF response.status_code >= 500
            THEN /\ sent' = sent + 2
                 /\ result' = delete_asset_result(second)
            ELSE /\ sent' = sent + 1
                 /\ result' = delete_asset_result(response)
    /\ calls' = calls + 1
    /\ UNCHANGED <<client, tokenResponse>>

delete_asset ==
    /\ calls < MaxCalls
    /\ client.constructed
    /\ \E key \in Keys, id \in Ids, response \in ApiResponses :
         /\ call' = [op |-> "delete_asset", args |-> [key |-> key, id |-> id]]
         /\ lastRequest' = delete_asset_request(client, key, id)
         /\ sent' = sent + 1
         /\ result' = delete_asset_result(response)
    /\ calls' = calls + 1
    /\ UNCHANGED <<client, tokenResponse>>

(* --------------------------- create_asset ------------------------------ *)

\* variant: the tag is compared without regard to case
create_asset_valid_nocase(value_type) ==
    Lower(value_type) \in {"integer", "boolean", "string", "credential"}

\* line 122: the guard of the validation error
create_asset_valid(value_type) ==
    value_type \in {"Integer", "Boolean", "String", "Credential"}

InvalidValueTypeMsg ==
    "Invalid value_type. Expected 'Integer', 'Boolean', 'String', or 'Credential'."

\* lines 134-153
create_asset_base(name, value, value_type, value_scope, description) ==
    [Name |-> StrV(name),
     CanBeDeleted |-> BoolV(TRUE),
     ValueScope |-> StrV(value_scope),
     ValueType |-> StrV(value_type),
     Value |-> StrV(PyStr(value)),
     StringValue |-> StrV(""),
     BoolValue |-> BoolV(FALSE),
     IntValue |-> IntV(0),
     CredentialUsername |-> StrV(""),
     CredentialPassword |-> StrV(""),
     ExternalName |-> StrV(""),
     CredentialStoreId |-> IntV(0),
     KeyValueList |-> ListV(<<>>),
     HasDefaultValue |-> BoolV(FALSE),
     Description |-> StrV(description),
     RobotValues |-> ListV(<<>>),
     UserValues |-> ListV(<<>>),
     Tags |-> ListV(<<>>)]

\* variant: the String branch writes the generic Value field
create_asset_body_strvalue(name, value, value_type, value_scope, description, username, password) ==
    LET body == create_asset_base(name, value, value_type, value_scope, description)
    IN IF value_type = "Integer"
       THEN [body EXCEPT !.IntValue = value]
       ELSE IF value_type = "Boolean"
       THEN [body EXCEPT !.BoolValue = value,
                         !.Value = StrV(Lower(PyStr(value)))]
       ELSE IF value_type = "String"
       THEN [body EXCEPT !.Value = value]
       ELSE IF value_type = "Credential"
       THEN [body EXCEPT !.CredentialUsername = username,
                         !.CredentialPassword = password]
       ELSE body

\* variant: the Boolean branch keeps str(value) as Python prints it
create_asset_body_nolower(name, value, value_type, value_scope, description, username, password) ==
    LET body == create_asset_base(name, value, value_type, value_scope, description)
    IN IF value_type = "Integer"
       THEN [body EXCEPT !.IntValue = value]
       ELSE IF value_type = "Boolean"
       THEN [body EXCEPT !.BoolValue = value,
                         !.Value = StrV(PyStr(value))]
       ELSE IF value_type = "String"
       THEN [body EXCEPT !.StringValue = value]
       ELSE IF value_type = "Credential"
       THEN [body EXCEPT !.CredentialUsername = username,
                         !.CredentialPassword = password]
       ELSE body

\* lines 134-164: the base body, then the fields of the declared type
create_asset_body(name, value, value_type, value_scope, description, username, password) ==
    LET body == create_asset_base(name, value, value_type, value_scope, description)
    IN IF value_type = "Integer"
       THEN [body EXCEPT !.IntValue = value]
       ELSE IF value_type = "Boolean"
       THEN [body EXCEPT !.BoolValue = value,
                         !.Value = StrV(Lower(PyStr(value)))]
       ELSE IF value_type = "String"
       THEN [body EXCEPT !.StringValue = value]
       ELSE IF value_type = "Credential"
       THEN [body EXCEPT !.CredentialUsername = username,
                         !.CredentialPassword = password]
       ELSE body

create_asset_request(self, id, body) ==
    [method |-> "POST", uri |-> self.base_url \o "/odata/Assets",
     headers |-> unit_headers(self, id), json |-> DictV(body)]

create_asset_result(response) ==
    IF response.status_code = 201
    THEN ReturnJson(response)
    ELSE Raise("ValueError", FailureMessage("Failed to create asset", response), response)

create_asset ==
    /\ calls < MaxCalls
    /\ client.constructed
    /\ \E id \in Ids, value \in Values, value_type \in ValueTypes,
          cred \in CredentialPairs, response \in ApiResponses :
         /\ call' = [op |-> "create_asset",
                     args |-> [id |-> id, name |-> "asset-1", value |-> value,
                               value_type |-> value_type, value_scope |-> "Global",
                               description |-> "using api",
                               username |-> cred[1], password |-> cred[2]]]
         /\ IF ~create_asset_valid(value_type)
            THEN /\ result' = Raise("ValueError", InvalidValueTypeMsg, NoResponse)
                 /\ UNCHANGED <<lastRequest, sent>>
            ELSE /\ lastRequest' =
                      create_asset_request(client, id,
                          create_asset_body("asset-1", value, value_type, "Global",
                                            "using api", cred[1], cred[2]))
                 /\ sent' = sent + 1
                 /\ result' = create_asset_result(response)
    /\ calls' = calls + 1
    /\ UNCHANGED <<client, tokenResponse>>

(* -------------------------- add_queue_item ----------------------------- *)

\* variant: the overrides are merged into itemData
add_queue_item_body_nested(queue_name, specific_content, priority, kwargs) ==
    [itemData |-> DictV(DictUpdate([Name |-> StrV(queue_name),
                                    Priority |-> StrV(priority),
                                    SpecificContent |-> DictV(specific_content)],
                                   kwargs))]

\* lines 183-191
add_queue_item_body(queue_name, specific_content, priority, kwargs) ==
    DictUpdate([itemData |-> DictV([Name |-> StrV(queue_name),
                                    Priority |-> StrV(priority),
                                    SpecificContent |-> DictV(specific_content)])],
               kwargs)

add_queue_item_request(self, id, body) ==
    [method |-> "POST",
     uri |-> self.base_url \o "/odata/Queues/UiPathODataSvc.AddQueueItem",
     headers |-> unit_headers(self, id), json |-> DictV(body)]

add_queue_item_result(response) ==
    IF response.status_code = 201
    THEN ReturnJson(response)
    ELSE Raise("ValueError", FailureMessage("Failed to create queue item", response), response)

add_queue_item ==
    /\ calls < MaxCalls
    /\ client.constructed
    /\ \E id \in Ids, specific_content \in SpecificContents, priority \in Priorities,
          kwargs \in ItemKwargs, response \in ApiResponses :
         /\ call' = [op |-> "add_queue_item",
                     args |-> [id |-> id, queue_name |-> "queue-1",
                               specific_content |-> specific_content,
                               priority |-> priority, kwargs |-> kwargs]]
         /\ lastRequest' =
              add_queue_item_request(client, id,
                  add_queue_item_body("queue-1", specific_content, priority, kwargs))
         /\ sent' = sent + 1
         /\ result' = add_queue_item_result(response)
    /\ calls' = calls + 1
    /\ UNCHANGED <<client, tokenResponse>>

(* --------------------------- create_queue ------------------------------ *)

\* lines 210-216
create_queue_body(name, description, kwargs) ==
    DictUpdate([Name |-> StrV(name), Description |-> StrV(description)], kwargs)

create_queue_request(self, id, body) ==
    [method |-> "POST", uri |-> self.base_url \o "/odata/QueueDefinitions",
     headers |-> unit_headers(self, id), json |-> DictV(body)]

create_queue_result(response) ==
    IF response.status_code = 201
    THEN ReturnJson(response)
    ELSE Raise("ValueError", FailureMessage("Failed to create queue", response), response)

create_queue ==
    /\ calls < MaxCalls
    /\ client.constructed
    /\ \E id \in Ids, kwargs \in QueueKwargs, response \in ApiResponses :
         /\ call' = [op |-> "create_queue",
                     args |-> [id |-> id, name |-> "queue-1",
                               description |-> "created using api",
                               kwargs |-> kwargs]]
         /\ lastRequest' =
              create_queue_request(client, id,
                  create_queue_body("queue-1", "created using api", kwargs))
         /\ sent' = sent + 1
         /\ result' = create_queue_result(response)
    /\ calls' = calls + 1
    /\ UNCHANGED <<client, tokenResponse>>

(* --------------------------- specification ----------------------------- *)

NoCall == [op |-> "none", args |-> EmptyDict]

Init ==
    /\ client = NoClient
    /\ tokenResponse = NoResponse
    /\ call = NoCall
    /\ lastRequest = NoRequest
    /\ result = NoResult
    /\ calls = 0
    /\ sent = 0

Next ==
    \/ OrchApi_init
    \/ get_all_assets
    \/ get_assets_by_key
    \/ delete_asset
    \/ create_asset
    \/ add_queue_item
    \/ create_queue

Spec == Init /\ [][Next]_vars

TypeOK ==
    /\ calls \in 0..MaxCalls
    /\ sent \in 0..MaxCalls
    /\ client.constructed \in BOOLEAN

(* ------------------------------ claims --------------------------------- *)

Operations ==
    {"get_all_assets", "get_assets_by_key", "delete_asset",
     "create_asset", "add_queue_item", "create_queue"}

\* the step is a call of operation op
IsCallOf(op) == calls' = calls + 1 /\ call'.op = op

\* C1: a create_asset call whose value_type is not one of Integer, Boolean,
\* String, Credential raises the validation error and sends no request: the
\* count of requests sent and the last request are unchanged by the call.
C1_InvalidTypeSendsNothing ==
    [][(IsCallOf("create_asset") /\ call'.args.value_type \notin ValidValueTypes)
        => /\ sent' = sent
           /\ lastRequest' = lastRequest
           /\ result'.kind = "raise"
           /\ result'.exc = "ValueError"
           /\ result'.msg = InvalidValueTypeMsg
           /\ result'.response = NoResponse]_vars

C1_Witness ==
    /\ call.op = "create_asset"
    /\ call.args.value_type = "Float"
    /\ result.kind = "raise"
    /\ calls = 2
    /\ sent = 1

\* the value fields of the posted asset body other than Value
OtherValueFields(b, sv, bv, iv, cu, cp) ==
    /\ b.StringValue = sv
    /\ b.BoolValue = bv
    /\ b.IntValue = iv
    /\ b.CredentialUsername = cu
    /\ b.CredentialPassword = cp

\* the populated fields per type, with the string field Value of the
\* non-Boolean types required to be nonBoolValue(value)
AssetFieldsAsTyped(nonBoolValue(_)) ==
    (call.op = "create_asset" /\ call.args.value_type \in ValidValueTypes) =>
        LET a == call.args
            b == lastRequest.json.v
        IN /\ lastRequest.method = "POST"
           /\ a.value_type = "Integer" =>
                /\ b.Value = nonBoolValue(a.value)
                /\ OtherValueFields(b, StrV(""), BoolV(FALSE), a.value, StrV(""), StrV(""))
           /\ a.value_type = "Boolean" =>
                /\ b.Value = StrV(Lower(PyStr(a.value)))
                /\ OtherValueFields(b, StrV(""), a.value, IntV(0), StrV(""), StrV(""))
           /\ a.value_type = "String" =>
                /\ b.Value = nonBoolValue(a.value)
                /\ OtherValueFields(b, a.value, BoolV(FALSE), IntV(0), StrV(""), StrV(""))
           /\ a.value_type = "Credential" =>
                /\ b.Value = nonBoolValue(a.value)
                /\ OtherValueFields(b, StrV(""), BoolV(FALSE), IntV(0), a.username, a.password)

DefaultValueField(value) == StrV("")
StringOfValue(value) == StrV(PyStr(value))

\* C2 as stated: for each of the four types the posted body populates the
\* fields of that type and every other value field, Value included, is at
\* its default ("", "", false, 0, "", "").
C2_Original == AssetFieldsAsTyped(DefaultValueField)

\* C2 amended: for each of the four types the posted body populates the
\* fields of that type; Value is str(value) for Integer, String and
\* Credential (its lowercase form for Boolean) and every other value field
\* is at its default.
C2_AssetFieldsByType == AssetFieldsAsTyped(StringOfValue)

C2_Witness ==
    /\ call.op = "create_asset"
    /\ call.args.value_type = "Integer"
    /\ call.args.value = IntV(42)
    /\ lastRequest.method = "POST"
    /\ lastRequest.json.v.IntValue = IntV(42)
    /\ lastRequest.json.v.Value = StrV("42")

\* C3: a Boolean create_asset posts BoolValue = the given boolean and
\* Value = its lowercase string: true gives "true", false gives "false".
C3_BooleanDualEncoding ==
    (call.op = "create_asset" /\ call.args.value_type = "Boolean") =>
        /\ call.args.value = BoolV(TRUE) =>
             /\ lastRequest.json.v.BoolValue = BoolV(TRUE)
             /\ lastRequest.json.v.Value = StrV("true")
        /\ call.args.value = BoolV(FALSE) =>
             /\ lastRequest.json.v.BoolValue = BoolV(FALSE)
             /\ lastRequest.json.v.Value = StrV("false")

C3_Witness ==
    /\ call.op = "create_asset"
    /\ call.args.value_type = "Boolean"
    /\ call.args.value = BoolV(TRUE)
    /\ lastRequest.json.v.Value = StrV("true")
    /\ result.kind = "return"

\* body is base with the overrides kw merged on top
MergedOver(body, base, kw) ==
    /\ DOMAIN body = (DOMAIN base) \cup (DOMAIN kw)
    /\ \A k \in DOMAIN kw : body[k] = kw[k]
    /\ \A k \in (DOMAIN base) \ (DOMAIN kw) : body[k] = base[k]

ItemData(a) ==
    DictV([Name |-> StrV(a.queue_name),
           Priority |-> StrV(a.priority),
           SpecificContent |-> DictV(a.specific_content)])

\* C4: in the body create_queue and add_queue_item post, every override key
\* holds the override's value (also when it collides with a base field),
\* and every base field not named by an override keeps its base value.
C4_OverridesWin ==
    /\ call.op = "create_queue" =>
         MergedOver(lastRequest.json.v,
                    [Name |-> StrV(call.args.name),
                     Description |-> StrV(call.args.description)],
                    call.args.kwargs)
    /\ call.op = "add_queue_item" =>
         MergedOver(lastRequest.json.v, [itemData |-> ItemData(call.args)],
                    call.args.kwargs)

C4_Witness ==
    /\ call.op = "create_queue"
    /\ "Name" \in DOMAIN call.args.kwargs
    /\ call.args.name = "queue-1"
    /\ lastRequest.json.v["Name"] = StrV("Override")
    /\ lastRequest.json.v["Description"] = StrV("created using api")

\* C5: without an "itemData" override the posted itemData is exactly
\* {Name, Priority, SpecificContent} of the arguments and each override is a
\* sibling top-level field; with one, itemData is the override's value.
C5_ItemDataFrame ==
    call.op = "add_queue_item" =>
        LET a == call.args
            b == lastRequest.json.v
        IN /\ "itemData" \in DOMAIN b
           /\ "itemData" \notin DOMAIN a.kwargs =>
                /\ b["itemData"] = ItemData(a)
                /\ \A k \in DOMAIN a.kwargs :
                     /\ k \in DOMAIN b
                     /\ b[k] = a.kwargs[k]
           /\ "itemData" \in DOMAIN a.kwargs =>
                b["itemData"] = a.kwargs["itemData"]

C5_Witness ==
    /\ call.op = "add_queue_item"
    /\ DOMAIN call.args.kwargs = {"Reference"}
    /\ DOMAIN lastRequest.json.v = {"itemData", "Reference"}
    /\ DOMAIN lastRequest.json.v["itemData"].v = {"Name", "Priority", "SpecificContent"}

Tokens == {"abc", "Xy9"}

\* C6: once the token exchange answered 200 with access token T, every
\* request an operation sends has Authorization = "Bearer T" and
\* accept = "application/json".
C6_BearerHeaders ==
    [][\A T \in Tokens :
        ( /\ tokenResponse = [status_code |-> 200,
                              text |-> "{\"access_token\":\"" \o T \o "\"}"]
          /\ calls' = calls + 1
          /\ call'.op \in Operations
          /\ sent' = sent + 1 )
        => /\ lastRequest'.headers["Authorization"] = "Bearer " \o T
           /\ lastRequest'.headers["accept"] = "application/json"]_vars

C6_Witness ==
    /\ tokenResponse.status_code = 200
    /\ call.op = "delete_asset"
    /\ lastRequest.method = "DELETE"
    /\ lastRequest.headers["Authorization"] = "Bearer abc"

\* C7: a token-exchange response with a status other than 200, whatever its
\* body, makes construction fail with an error carrying that status code and
\* the body text, and no client is produced.
C7_ConstructionFailureCarriesStatus ==
    (call.op = "__init__" /\ result.response.status_code # 200) =>
        /\ result.kind = "raise"
        /\ Contains(result.msg, IntToStr(result.response.status_code))
        /\ Contains(result.msg, result.response.text)
        /\ ~client.constructed

SuccessStatus(op) ==
    CASE op \in {"get_all_assets", "get_assets_by_key"} -> 200
      [] op = "delete_asset" -> 204
      [] op \in {"create_asset", "add_queue_item", "create_queue"} -> 201

\* the generic failure: one error kind carrying the status and the raw body
GenericFailure(r) ==
    /\ r.kind = "raise"
    /\ r.exc = "ValueError"
    /\ Contains(r.msg, "Status code: " \o IntToStr(r.response.status_code) \o ".")
    /\ EndsWith(r.msg, "Response: " \o r.response.text)

\* the last call is an operation that received a response
Answered == call.op \in Operations /\ result.response # NoResponse

\* C8 as stated: an operation succeeds if and only if the status is its one
\* success code, and fails with the generic error for every other status.
C8_Original ==
    Answered =>
        /\ (result.kind = "return") <=> (result.response.status_code = SuccessStatus(call.op))
        /\ result.response.status_code # SuccessStatus(call.op) => GenericFailure(result)

\* C8 amended: an operation fails with the generic error, carrying the
\* status and the raw body, exactly when the status is not its one success
\* code; with the success code it succeeds, except that an operation that
\* returns the decoded body fails with a JSON decoding error when the body
\* is not valid JSON (delete_asset decodes nothing).
C8_OneSuccessStatus ==
    Answered =>
        /\ GenericFailure(result) <=> (result.response.status_code # SuccessStatus(call.op))
        /\ result.response.status_code = SuccessStatus(call.op) =>
             IF call.op = "delete_asset" \/ JsonLoads(result.response.text).ok
             THEN result.kind = "return"
             ELSE result.kind = "raise" /\ result.exc = "JSONDecodeError"

C8_Witness ==
    /\ call.op = "delete_asset"
    /\ result.response.status_code = 200
    /\ result.kind = "raise"
    /\ Contains(result.msg, "200")
    /\ Contains(result.msg, "Not Found")

\* the number of requests the call just made has to send
RequestsDue(c) ==
    IF c.op = "create_asset" /\ c.args.value_type \notin ValidValueTypes THEN 0 ELSE 1

\* C9: every call, construction included, sends exactly one request when
\* validation passes and none otherwise, whatever the status answered; no
\* request is sent outside a call.
C9_OneRequestPerCall ==
    [][calls' = calls + 1 /\ sent' = sent + RequestsDue(call')]_vars

C9_Witness ==
    /\ call.op \in Operations
    /\ result.kind = "raise"
    /\ result.response.status_code = 500
    /\ calls = 3
    /\ sent = 3

\* C10: once constructed, the client's access token and base URL keep the
\* values set at construction through every call, and no call sends a
\* request to the token endpoint.
C10_ClientImmutable ==
    [][client.constructed =>
        /\ client' = client
        /\ sent' # sent => lastRequest'.uri # DefaultTokenUrl]_vars

C10_Witness ==
    /\ client.constructed
    /\ client.access_token = "Xy9"
    /\ call.op = "create_asset"
    /\ result.kind = "raise"
    /\ calls = 3

====
